---- MODULE Spec2Model ----
(***************************************************************************)
(* Model of src/bot.py: the topic/quiz cache (summaries_collection,        *)
(* quizzes_collection), the content generators (summarize_text,            *)
(* generate_quiz), the per-user answer tracker (user_state) and the        *)
(* dialogue controller (start, handle_message).                            *)
(*                                                                         *)
(* A Python str is a sequence of one-character strings, so that strip,     *)
(* upper, lower and split are computed character by character.  A literal  *)
(* of the source that no string operation is applied to is kept as one     *)
(* element of the sequence (an emoji is written by name, in brackets).     *)
(*                                                                         *)
(* A handler is a coroutine: it can be suspended only at an await that     *)
(* really suspends, which in this file is each reply_text call.            *)
(* summarize_text and generate_quiz hold no such await (the completion     *)
(* client and the store client are called synchronously), so each runs     *)
(* as one step of the handler that awaits it.  A handler that has          *)
(* returned, or that an exception has left, is no longer in task.          *)
(*                                                                         *)
(* The variables setter, last_ret and last_msg and the task fields seen,   *)
(* seen_by, prev, out, calls, sum_how and quiz_how record what has         *)
(* happened; no action reads them to decide what the program does.         *)
(***************************************************************************)
EXTENDS Integers, Sequences, FiniteSets, TLC

VARIABLES
    summaries_collection,  \* db['summaries']: the documents, in insertion order
    quizzes_collection,    \* db['quizzes']
    user_state,            \* the dict user_state: user id -> {"topic", "answer"}
    task,                  \* the live handler coroutines, by update number
    updates,               \* number of updates dispatched so far
    logged,                \* the exceptions error_handler has logged, in order
    faults,                \* number of collaborator calls that have failed
    setter,                \* history: who wrote each entry of user_state, over what
    last_ret,              \* history: the last return of each generator, by topic
    last_msg,              \* history: how each user's previous message went
    gen                    \* SpecParse: one call of generate_quiz, before and after

vars == <<summaries_collection, quizzes_collection, user_state, task, updates,
          logged, faults, setter, last_ret, last_msg, gen>>

(* ------------------------------ bounds --------------------------------- *)

\* Number of updates (messages and /start commands) the transport delivers.
MaxUpdates == 3

\* Number of calls to a collaborator (the transport, the store, the completion
\* service) that fail.
MaxFaults == 1

\* Number of handlers that may be suspended at an await at the same time.
MaxInFlight == 2

\* Telegram user ids.
Users == {1, 2}

\* Message texts users send: "b" and " A".
Texts == { <<"b">>, <<" ", "A">> }

\* Contents the completion collaborator may return for a summary request.
SummaryContents == { <<" ", "x">>, <<"y", "\n">> }

\* The marker generate_quiz splits on.
Marker == <<"A", "n", "s", "w", "e", "r", ":">>

\* Contents the completion collaborator may return for a quiz request:
\* "Q?\nAnswer: b" and "Q?" (no marker).
QuizContents ==
    { <<"Q", "?", "\n">> \o Marker \o <<" ", "b">>,
      <<"Q", "?">> }

\* Contents for the specification of generate_quiz alone (SpecParse): "Q?" or
\* "Q?\n", then the marker or nothing, then at most MaxSuffix characters.
MaxSuffix == 2

SuffixChars == {" ", "b", "e", ")"}

Suffixes == UNION { [1..n -> SuffixChars] : n \in 0..MaxSuffix }

ParseContents ==
    { p \o m \o x : p \in { <<"Q", "?">>, <<"Q", "?", "\n">> },
                    m \in { << >>, Marker },
                    x \in Suffixes }

\* The topics of the messages in Texts.
Topics == { <<"a">>, <<"b">> }

\* What str(e) is for a failed completion request and for a failed store call.
CompletionError == <<"timeout">>
StoreError == <<"store unreachable">>

\* Outcomes of one completion request.
Completions(contents) ==
    { [ok |-> TRUE, content |-> c] : c \in contents }
        \cup { [ok |-> FALSE, content |-> CompletionError] }

\* Outcomes of the store calls of one generator call: whether find_one and
\* insert_one succeed.
StoreOutcomes == { [find |-> f, insert |-> i] : f \in BOOLEAN, i \in BOOLEAN }

(* --------------------------- string functions -------------------------- *)

Whitespace == {" ", "\n"}

LowerChars == <<"a", "b", "c", "d", "e", "n", "q", "r", "s", "w", "x", "y">>
UpperChars == <<"A", "B", "C", "D", "E", "N", "Q", "R", "S", "W", "X", "Y">>

UpperChar(c) ==
    IF \E i \in 1..Len(LowerChars) : LowerChars[i] = c
    THEN UpperChars[CHOOSE i \in 1..Len(LowerChars) : LowerChars[i] = c]
    ELSE c

LowerChar(c) ==
    IF \E i \in 1..Len(UpperChars) : UpperChars[i] = c
    THEN LowerChars[CHOOSE i \in 1..Len(UpperChars) : UpperChars[i] = c]
    ELSE c

\* str.upper()
Upper(s) == [i \in 1..Len(s) |-> UpperChar(s[i])]

\* str.lower()
Lower(s) == [i \in 1..Len(s) |-> LowerChar(s[i])]

RECURSIVE LStrip(_)
LStrip(s) ==
    IF s # << >> /\ Head(s) \in Whitespace THEN LStrip(Tail(s)) ELSE s

RECURSIVE RStrip(_)
RStrip(s) ==
    IF s # << >> /\ s[Len(s)] \in Whitespace
    THEN RStrip(SubSeq(s, 1, Len(s) - 1))
    ELSE s

\* str.strip()
Strip(s) == RStrip(LStrip(s))

\* str.find(sep, i), 1-based; 0 when sep does not occur at or after i.
RECURSIVE Find(_, _, _)
Find(s, sep, i) ==
    IF i + Len(sep) - 1 > Len(s) THEN 0
    ELSE IF SubSeq(s, i, i + Len(sep) - 1) = sep THEN i
    ELSE Find(s, sep, i + 1)

\* str.split(sep): the parts between the occurrences of sep, left to right.
RECURSIVE Split(_, _)
Split(s, sep) ==
    LET k == Find(s, sep, 1)
    IN  IF k = 0 THEN <<s>>
        ELSE <<SubSeq(s, 1, k - 1)>> \o Split(SubSeq(s, k + Len(sep), Len(s)), sep)

(* ------------------------------ the cache ------------------------------ *)

\* Mutant of find_one: the query matches nothing.
find_one_miss(coll, topic) == << >>

\* collection.find_one({"topic": topic}): the first matching document, as a
\* sequence of length 0 (None) or 1.
find_one(coll, topic) ==
    LET hits == { i \in 1..Len(coll) : coll[i].topic = topic }
    IN  IF hits = {} THEN << >>
        ELSE <<coll[CHOOSE i \in hits : \A j \in hits : i <= j]>>

\* Mutant of insert_one: the new document replaces the collection.
insert_one_replace(coll, doc) == <<doc>>

\* collection.insert_one(doc)
insert_one(coll, doc) == Append(coll, doc)

(* ---------------------------- the generators --------------------------- *)

\* The string summarize_text returns from its except branch.
SummaryFallback(e) == <<"[cross] Error during summarization: ">> \o e

\* Mutant of QuizFallback: the except branch pairs the marker with "B".
QuizFallback_B == [quiz |-> <<"[cross] Error generating quiz.">>, answer |-> <<"B">>]

\* The pair generate_quiz returns from its except branch.
QuizFallback == [quiz |-> <<"[cross] Error generating quiz.">>, answer |-> <<"A">>]

\* Mutant of summaries_lookup: the query never matches.
summaries_lookup_miss(coll, topic) == << >>

\* Line 39: cached = summaries_collection.find_one({"topic": topic})
summaries_lookup(coll, topic) == find_one(coll, topic)

\* summarize_text(topic) on the collection coll, with the store behaving as st
\* and the completion collaborator answering llm when asked.
\*   how:   "raised" (an exception leaves the function), "hit" (line 41),
\*          "stored" (line 60) or "fallback" (line 62);
\*   exc:   the exception that leaves the function, or "None";
\*   ret:   the value returned;
\*   coll:  the collection afterwards;
\*   calls: the completion requests made, each with its outcome.
summarize_text(topic, coll, st, llm) ==
    IF ~st.find
    THEN [how |-> "raised", exc |-> "CacheFailure", ret |-> << >>, coll |-> coll,
          calls |-> << >>]
    ELSE
      LET cached == summaries_lookup(coll, topic)
          call   == <<[fn |-> "summary", topic |-> topic, ok |-> llm.ok]>>
      IN  IF cached # << >>
          THEN [how |-> "hit", exc |-> "None", ret |-> cached[1].summary,
                coll |-> coll, calls |-> << >>]
          ELSE IF ~llm.ok
          THEN [how |-> "fallback", exc |-> "None",
                ret |-> SummaryFallback(llm.content), coll |-> coll, calls |-> call]
          ELSE
            LET summary == Strip(llm.content)
            IN  IF ~st.insert
                THEN [how |-> "fallback", exc |-> "None",
                      ret |-> SummaryFallback(StoreError), coll |-> coll,
                      calls |-> call]
                ELSE [how |-> "stored", exc |-> "None", ret |-> summary,
                      coll |-> insert_one(coll, [topic |-> topic, summary |-> summary]),
                      calls |-> call]

\* Lines 89-92: the question and the answer letter of a completion's content.
parse_quiz(content) ==
    LET full_quiz == Strip(content)
        parts     == Split(full_quiz, Marker)
    IN  [quiz   |-> Strip(parts[1]),
         answer |-> IF Len(parts) > 1 THEN Upper(Strip(parts[2])) ELSE <<"A">>]

\* Mutant of quiz_doc: the document is written with the default letter.
quiz_doc_default_letter(topic, question, answer) ==
    [topic |-> topic, quiz |-> question, answer |-> <<"A">>]

\* Line 93: the document generate_quiz inserts.
quiz_doc(topic, question, answer) ==
    [topic |-> topic, quiz |-> question, answer |-> answer]

\* Mutant of quiz_except: the fallback pair is written to the collection.
quiz_except_cached(topic, coll, calls) ==
    [how |-> "fallback", exc |-> "None", ret |-> QuizFallback,
     coll |-> insert_one(coll, quiz_doc(topic, QuizFallback.quiz, QuizFallback.answer)),
     calls |-> calls]

\* Lines 95-96: the except branch of generate_quiz.
quiz_except(topic, coll, calls) ==
    [how |-> "fallback", exc |-> "None", ret |-> QuizFallback, coll |-> coll,
     calls |-> calls]

\* generate_quiz(topic), as summarize_text; ret is the pair (quiz, answer).
generate_quiz(topic, coll, st, llm) ==
    IF ~st.find
    THEN [how |-> "raised", exc |-> "CacheFailure", ret |-> QuizFallback,
          coll |-> coll, calls |-> << >>]
    ELSE
      LET cached == find_one(coll, topic)
          call   == <<[fn |-> "quiz", topic |-> topic, ok |-> llm.ok]>>
      IN  IF cached # << >>
          THEN [how |-> "hit", exc |-> "None",
                ret |-> [quiz |-> cached[1].quiz, answer |-> cached[1].answer],
                coll |-> coll, calls |-> << >>]
          ELSE IF ~llm.ok
          THEN quiz_except(topic, coll, call)
          ELSE
            LET q == parse_quiz(llm.content)
            IN  IF ~st.insert
                THEN quiz_except(topic, coll, call)
                ELSE [how |-> "stored", exc |-> "None", ret |-> q,
                      coll |-> insert_one(coll, quiz_doc(topic, q.quiz, q.answer)),
                      calls |-> call]

\* Whether a collaborator call failed inside a generator call.
Faulty(r) == r.how \in {"raised", "fallback"}

(* --------------------------- the controller ---------------------------- *)

\* The replies handed to the chat transport (update.message.reply_text).
Reply(text, parse_mode) == [text |-> text, parse_mode |-> parse_mode]

GreetingReply ==
    Reply(<<"[wave] Hi! I'm your Fullstack JS bot. Send me a topic like 'loops', 'functions', etc., and I'll teach you and give you a quiz!">>,
          "None")

CorrectReply == Reply(<<"[check] Correct! [party]">>, "None")

IncorrectReply(correct) ==
    Reply(<<"[cross] Incorrect. The correct answer was: *">> \o correct \o <<"*">>,
          "Markdown")

AckReply(topic) ==
    Reply(<<"[book] Learning about *">> \o topic \o <<"*...">>, "Markdown")

SummaryReply(summary) == Reply(summary, "Markdown")

IntroReply == Reply(<<"[brain] Here's a quiz for practice:">>, "None")

QuizReply(quiz) == Reply(quiz, "Markdown")

\* The value of a local variable that has not been assigned.
Unset == <<"<unset>">>

\* Line 109: user_id in user_state and 'answer' in user_state[user_id]
\* (every entry the program writes has the key 'answer').
HasPending(us, user_id) == user_id \in DOMAIN us

\* Mutant of Grade: the user's text is compared as typed.
Grade_case_sensitive(entry, text) ==
    LET correct     == Upper(Strip(entry.answer))
        user_answer == Strip(text)
    IN  [correct |-> correct, user_answer |-> user_answer,
         pc |-> IF user_answer = correct THEN "L114" ELSE "L116",
         reply |-> IF user_answer = correct THEN CorrectReply
                   ELSE IncorrectReply(correct)]

\* Lines 110-119: the two sides of the comparison, and the await reached with
\* the reply it sends.
Grade(entry, text) ==
    LET correct     == Upper(Strip(entry.answer))
        user_answer == Upper(Strip(text))
    IN  [correct |-> correct, user_answer |-> user_answer,
         pc |-> IF user_answer = correct THEN "L114" ELSE "L116",
         reply |-> IF user_answer = correct THEN CorrectReply
                   ELSE IncorrectReply(correct)]

\* Mutant of Topic: the topic is the text as typed.
Topic_as_typed(text) == text

\* Line 125: topic = text.lower()
Topic(text) == Lower(text)

\* Mutant of DelPending: the whole dict is emptied (user_state.clear()).
DelPending_all(us, user_id) == << >>

\* Line 121: del user_state[user_id]
DelPending(us, user_id) == [v \in DOMAIN us \ {user_id} |-> us[v]]

\* Mutant of SetPending: an entry already there is kept (setdefault).
SetPending_setdefault(us, user_id, topic, answer) ==
    [v \in DOMAIN us \cup {user_id} |->
        IF v \in DOMAIN us THEN us[v] ELSE [topic |-> topic, answer |-> answer]]

\* Mutant of SetPending: the dict is rebound to one holding this entry only
\* (user_state = {user_id: {...}}).
SetPending_rebind(us, user_id, topic, answer) ==
    [v \in {user_id} |-> [topic |-> topic, answer |-> answer]]

\* Line 135: user_state[user_id] = {"topic": topic, "answer": answer}
SetPending(us, user_id, topic, answer) ==
    [v \in DOMAIN us \cup {user_id} |->
        IF v = user_id THEN [topic |-> topic, answer |-> answer] ELSE us[v]]

\* The pcs: a handler is suspended in the awaited reply_text of that line.
Awaiting == {"L100", "L114", "L116", "L126", "L129", "L131", "L133"}

\* The handler task of one update.  kind, user_id, raw: the update (raw is
\* update.message.text).  pc: where the coroutine is.  text .. user_answer:
\* its local variables.  History: seen is the entry of user_state the test of
\* line 109 found (a sequence of length 0 or 1) and seen_by the update whose
\* handler wrote it, prev how the user's previous message went, out the
\* replies handed to the transport, calls the completion requests made,
\* sum_how and quiz_how how the two generator calls ended.
NewTask(kind, user_id, raw) ==
    [kind |-> kind, user_id |-> user_id, raw |-> raw, pc |-> "L100",
     text |-> Unset, topic |-> Unset, summary |-> Unset, quiz |-> Unset,
     answer |-> Unset, correct |-> Unset, user_answer |-> Unset,
     seen |-> << >>, seen_by |-> 0, prev |-> "none", out |-> << >>,
     calls |-> << >>, sum_how |-> "none", quiz_how |-> "none"]

Tasks == DOMAIN task

\* task with the handler h added or replaced, and with h removed.
WithTask(h, t) == [k \in Tasks \cup {h} |-> IF k = h THEN t ELSE task[k]]
WithoutTask(h) == [k \in Tasks \ {h} |-> task[k]]

\* f with f[k] set to v, k added to its domain when new.
Put(f, k, v) == [x \in DOMAIN f \cup {k} |-> IF x = k THEN v ELSE f[x]]

Init ==
    /\ summaries_collection = << >>
    /\ quizzes_collection = << >>
    /\ user_state = << >>
    /\ task = << >>
    /\ updates = 0
    /\ logged = << >>
    /\ faults = 0
    /\ setter = << >>
    /\ last_ret = [summary |-> << >>, quiz |-> << >>]
    /\ last_msg = [u \in Users |-> "none"]
    /\ gen = [stage |-> "none"]

\* start, line 99 to the await of line 100.
start(user_id) ==
    /\ updates < MaxUpdates
    /\ updates' = updates + 1
    /\ task' = WithTask(updates', [NewTask("start", user_id, << >>) EXCEPT
                                        !.out = <<GreetingReply>>])
    /\ UNCHANGED <<summaries_collection, quizzes_collection, user_state, logged,
                   faults, setter, last_ret, last_msg, gen>>

\* start, the reply of line 100 delivered: the handler returns.
start_return(h) ==
    /\ task[h].pc = "L100"
    /\ task' = WithoutTask(h)
    /\ UNCHANGED <<summaries_collection, quizzes_collection, user_state, updates,
                   logged, faults, setter, last_ret, last_msg, gen>>

\* handle_message, line 105 to its first await: line 114 or 116 when the
\* user has a pending quiz, line 126 otherwise.
handle_message(user_id, raw) ==
    /\ updates < MaxUpdates
    /\ updates' = updates + 1
    /\ LET text == Strip(raw)
           t0   == [NewTask("message", user_id, raw) EXCEPT
                        !.text = text, !.prev = last_msg[user_id]]
       IN  IF HasPending(user_state, user_id)
           THEN LET g == Grade(user_state[user_id], text)
                IN  /\ task' = WithTask(updates', [t0 EXCEPT
                                !.pc = g.pc, !.correct = g.correct,
                                !.user_answer = g.user_answer,
                                !.seen = <<user_state[user_id]>>,
                                !.seen_by = setter[user_id].by,
                                !.out = <<g.reply>>])
                    /\ last_msg' = [last_msg EXCEPT ![user_id] = "answer"]
           ELSE LET topic == Topic(text)
                IN  /\ task' = WithTask(updates', [t0 EXCEPT
                                !.pc = "L126", !.topic = topic,
                                !.out = <<AckReply(topic)>>])
                    /\ last_msg' = [last_msg EXCEPT ![user_id] = "topic"]
    /\ UNCHANGED <<summaries_collection, quizzes_collection, user_state, logged,
                   faults, setter, last_ret, gen>>

\* handle_message, the reply of line 114 or 116 delivered: line 121 deletes
\* the entry (KeyError when it is no longer there) and line 122 returns.
answer_return(h) ==
    /\ task[h].pc \in {"L114", "L116"}
    /\ task' = WithoutTask(h)
    /\ IF task[h].user_id \in DOMAIN user_state
       THEN /\ user_state' = DelPending(user_state, task[h].user_id)
            /\ setter' = DelPending(setter, task[h].user_id)
            /\ logged' = logged
       ELSE /\ logged' = Append(logged, "KeyError")
            /\ UNCHANGED <<user_state, setter, gen>>
    /\ UNCHANGED <<summaries_collection, quizzes_collection, updates, faults,
                   last_ret, last_msg, gen>>

\* handle_message, the reply of line 126 delivered: line 128 runs
\* summarize_text and line 129 starts the reply with the summary.
topic_summarize(h, st, llm) ==
    /\ task[h].pc = "L126"
    /\ LET r == summarize_text(task[h].topic, summaries_collection, st, llm)
       IN  /\ faults' = faults + (IF Faulty(r) THEN 1 ELSE 0)
           /\ faults' <= MaxFaults
           /\ summaries_collection' = r.coll
           /\ IF r.how = "raised"
              THEN /\ task' = WithoutTask(h)
                   /\ logged' = Append(logged, r.exc)
                   /\ last_ret' = last_ret
              ELSE /\ task' = [task EXCEPT ![h].pc = "L129",
                                           ![h].summary = r.ret,
                                           ![h].calls = @ \o r.calls,
                                           ![h].sum_how = r.how,
                                           ![h].out = Append(@, SummaryReply(r.ret))]
                   /\ logged' = logged
                   /\ last_ret' = [last_ret EXCEPT !.summary =
                                     Put(@, task[h].topic, [ret |-> r.ret, how |-> r.how])]
    /\ UNCHANGED <<quizzes_collection, user_state, updates, setter, last_msg, gen>>

\* handle_message, the reply of line 129 delivered: line 131 starts the
\* quiz-intro reply.
topic_intro(h) ==
    /\ task[h].pc = "L129"
    /\ task' = [task EXCEPT ![h].pc = "L131", ![h].out = Append(@, IntroReply)]
    /\ UNCHANGED <<summaries_collection, quizzes_collection, user_state, updates,
                   logged, faults, setter, last_ret, last_msg, gen>>

\* Mutant of topic_quiz: the pending quiz is recorded as soon as generate_quiz
\* has returned, before the reply with the question (line 135 before line 133).
topic_quiz_sets_pending(h, st, llm) ==
    /\ task[h].pc = "L131"
    /\ LET r == generate_quiz(task[h].topic, quizzes_collection, st, llm)
       IN  /\ faults' = faults + (IF Faulty(r) THEN 1 ELSE 0)
           /\ faults' <= MaxFaults
           /\ quizzes_collection' = r.coll
           /\ IF r.how = "raised"
              THEN /\ task' = WithoutTask(h)
                   /\ logged' = Append(logged, r.exc)
                   /\ UNCHANGED <<last_ret, user_state, setter>>
              ELSE /\ task' = [task EXCEPT ![h].pc = "L133",
                                           ![h].quiz = r.ret.quiz,
                                           ![h].answer = r.ret.answer,
                                           ![h].calls = @ \o r.calls,
                                           ![h].quiz_how = r.how,
                                           ![h].out = Append(@, QuizReply(r.ret.quiz))]
                   /\ logged' = logged
                   /\ last_ret' = [last_ret EXCEPT !.quiz =
                                     Put(@, task[h].topic, [ret |-> r.ret, how |-> r.how])]
                   /\ user_state' = SetPending(user_state, task[h].user_id,
                                               task[h].topic, r.ret.answer)
                   /\ setter' = Put(setter, task[h].user_id,
                                    [by |-> h,
                                     over |-> IF task[h].user_id \in DOMAIN user_state
                                              THEN <<user_state[task[h].user_id]>>
                                              ELSE << >>])
    /\ UNCHANGED <<summaries_collection, updates, last_msg, gen>>

\* handle_message, the reply of line 131 delivered: line 132 runs
\* generate_quiz and line 133 starts the reply with the question.
topic_quiz(h, st, llm) ==
    /\ task[h].pc = "L131"
    /\ LET r == generate_quiz(task[h].topic, quizzes_collection, st, llm)
       IN  /\ faults' = faults + (IF Faulty(r) THEN 1 ELSE 0)
           /\ faults' <= MaxFaults
           /\ quizzes_collection' = r.coll
           /\ IF r.how = "raised"
              THEN /\ task' = WithoutTask(h)
                   /\ logged' = Append(logged, r.exc)
                   /\ last_ret' = last_ret
              ELSE /\ task' = [task EXCEPT ![h].pc = "L133",
                                           ![h].quiz = r.ret.quiz,
                                           ![h].answer = r.ret.answer,
                                           ![h].calls = @ \o r.calls,
                                           ![h].quiz_how = r.how,
                                           ![h].out = Append(@, QuizReply(r.ret.quiz))]
                   /\ logged' = logged
                   /\ last_ret' = [last_ret EXCEPT !.quiz =
                                     Put(@, task[h].topic, [ret |-> r.ret, how |-> r.how])]
    /\ UNCHANGED <<summaries_collection, user_state, updates, setter, last_msg, gen>>

\* handle_message, the reply of line 133 delivered: line 135 records the
\* pending quiz and the handler returns.
topic_return(h) ==
    /\ task[h].pc = "L133"
    /\ user_state' = SetPending(user_state, task[h].user_id, task[h].topic,
                                task[h].answer)
    /\ setter' = Put(setter, task[h].user_id,
                     [by |-> h,
                      over |-> IF task[h].user_id \in DOMAIN user_state
                               THEN <<user_state[task[h].user_id]>> ELSE << >>])
    /\ last_msg' = [last_msg EXCEPT ![task[h].user_id] = "set"]
    /\ task' = WithoutTask(h)
    /\ UNCHANGED <<summaries_collection, quizzes_collection, updates, logged,
                   faults, last_ret, gen>>

\* An awaited reply_text raises (the transport could not deliver the reply):
\* the exception leaves the handler at that line and error_handler logs it.
reply_raises(h) ==
    /\ task[h].pc \in Awaiting
    /\ faults < MaxFaults
    /\ faults' = faults + 1
    /\ task' = WithoutTask(h)
    /\ logged' = Append(logged, "TransportFailure")
    /\ UNCHANGED <<summaries_collection, quizzes_collection, user_state, updates,
                   setter, last_ret, last_msg, gen>>

\* The steps a handler takes after its first await.
Resume ==
    \/ \E h \in Tasks : start_return(h)
    \/ \E h \in Tasks : answer_return(h)
    \/ \E h \in Tasks, st \in StoreOutcomes, llm \in Completions(SummaryContents) :
            topic_summarize(h, st, llm)
    \/ \E h \in Tasks : topic_intro(h)
    \/ \E h \in Tasks, st \in StoreOutcomes, llm \in Completions(QuizContents) :
            topic_quiz(h, st, llm)
    \/ \E h \in Tasks : topic_return(h)
    \/ \E h \in Tasks : reply_raises(h)

\* The dispatcher starts the handler of the next update.
Dispatch ==
    \/ \E u \in Users : start(u)
    \/ \E u \in Users, raw \in Texts : handle_message(u, raw)

\* Handlers of different updates interleave at their awaits.
Next == (Cardinality(Tasks) < MaxInFlight /\ Dispatch) \/ Resume

Spec == Init /\ [][Next]_vars

\* The dispatcher starts a handler only when the one before it has ended
\* (updates are processed one after another).
NextSeq == (Tasks = {} /\ Dispatch) \/ Resume

SpecSeq == Init /\ [][NextSeq]_vars

(* ------------------------ generate_quiz alone -------------------------- *)

\* One call of generate_quiz on an empty collection, for every topic and
\* every content of ParseContents.
InitParse ==
    /\ summaries_collection = << >>
    /\ quizzes_collection = << >>
    /\ user_state = << >>
    /\ task = << >>
    /\ updates = 0
    /\ logged = << >>
    /\ faults = 0
    /\ setter = << >>
    /\ last_ret = [summary |-> << >>, quiz |-> << >>]
    /\ last_msg = [u \in Users |-> "none"]
    /\ gen \in { [stage |-> "called", topic |-> t, content |-> c,
                  how |-> "none", ret |-> QuizFallback] :
                    t \in Topics, c \in ParseContents }

call_generate_quiz(llm) ==
    /\ gen.stage = "called"
    /\ LET r == generate_quiz(gen.topic, quizzes_collection,
                              [find |-> TRUE, insert |-> TRUE], llm)
       IN  /\ gen' = [gen EXCEPT !.stage = "returned", !.how = r.how, !.ret = r.ret]
           /\ quizzes_collection' = r.coll
    /\ UNCHANGED <<summaries_collection, user_state, task, updates, logged, faults,
                   setter, last_ret, last_msg>>

NextParse == \E llm \in Completions({gen.content}) : call_generate_quiz(llm)

SpecParse == InitParse /\ [][NextParse]_vars

(* ----------------------------- properties ------------------------------ *)

Range(f) == { f[x] : x \in DOMAIN f }

Letters == { <<"A">>, <<"B">>, <<"C">>, <<"D">> }

\* The handler h is suspended on the answer path.
Grading(h) == task[h].pc \in {"L114", "L116"}

\* The reply r is one of the two replies of the answer path.
IsGradeReply(r) ==
    \/ r = CorrectReply
    \/ r.text # << >> /\ Head(r.text) = Head(IncorrectReply(<< >>).text)

\* In this step summarize_text, called by h, returns.
SummarizeReturns(h) ==
    /\ task[h].pc = "L126"
    /\ h \in DOMAIN task'
    /\ task'[h].pc = "L129"

\* In this step generate_quiz, called by h, returns.
QuizReturns(h) ==
    /\ task[h].pc = "L131"
    /\ h \in DOMAIN task'
    /\ task'[h].pc = "L133"

\* In this step the handler h ends by returning (no exception is logged).
Returns(h) == h \notin DOMAIN task' /\ logged' = logged

\* C1 as stated: whenever summarize_text(T) returns and it has returned for T
\* before, it returns the string of the previous call and makes no completion
\* request.
C1_SecondCallIdentical ==
    [][\A h \in Tasks :
        (SummarizeReturns(h) /\ task[h].topic \in DOMAIN last_ret.summary)
            => /\ task'[h].summary = last_ret.summary[task[h].topic].ret
               /\ task'[h].calls = task[h].calls]_vars

\* C1 as amended: whenever summarize_text(T) returns and the previous call
\* for T did not end in the except branch, it returns the string of the
\* previous call and makes no completion request.
C1_SecondCallIdenticalAfterSuccess ==
    [][\A h \in Tasks :
        (/\ SummarizeReturns(h)
         /\ task[h].topic \in DOMAIN last_ret.summary
         /\ last_ret.summary[task[h].topic].how # "fallback")
            => /\ task'[h].summary = last_ret.summary[task[h].topic].ret
               /\ task'[h].calls = task[h].calls]_vars

\* C1, its case: a handler whose summarize_text call was served from the
\* collection, the call before it for that topic having stored the string.
C1_Witness ==
    \E h \in Tasks :
        /\ task[h].pc = "L129"
        /\ task[h].sum_how = "hit"
        /\ task[h].calls = << >>
        /\ task[h].summary \in { Strip(c) : c \in SummaryContents }

\* C2 as stated: the letter generate_quiz returns, and the letter of every
\* document it writes, is one of A, B, C, D; when the content holds no
\* "Answer:" marker the letter returned is "A".
C2_AnswerIsLetter ==
    gen.stage = "returned" =>
        /\ gen.ret.answer \in Letters
        /\ \A i \in 1..Len(quizzes_collection) :
                quizzes_collection[i].answer \in Letters
        /\ Find(gen.content, Marker, 1) = 0 => gen.ret.answer = <<"A">>

\* C3: a step in which a completion request fails leaves both collections as
\* they were, logs no exception and leaves the handler running with the
\* fallback value: a summary that starts with the cross mark, the pair
\* ("[cross] Error generating quiz.", "A") for the quiz.  No exception other
\* than a store, transport or key error is ever logged.
C3_CompletionFailureRecovered ==
    [][/\ \A h \in Tasks :
            (/\ h \in DOMAIN task'
             /\ Len(task'[h].calls) > Len(task[h].calls)
             /\ ~task'[h].calls[Len(task'[h].calls)].ok)
                => /\ summaries_collection' = summaries_collection
                   /\ quizzes_collection' = quizzes_collection
                   /\ logged' = logged
                   /\ task[h].pc = "L126" =>
                        /\ task'[h].pc = "L129"
                        /\ SubSeq(task'[h].summary, 1, 1) =
                                <<"[cross] Error during summarization: ">>
                        /\ find_one(summaries_collection', task[h].topic) = << >>
                   /\ task[h].pc = "L131" =>
                        /\ task'[h].pc = "L133"
                        /\ task'[h].quiz = <<"[cross] Error generating quiz.">>
                        /\ task'[h].answer = <<"A">>
                        /\ find_one(quizzes_collection', task[h].topic) = << >>
       /\ Range(logged') \subseteq {"CacheFailure", "TransportFailure", "KeyError"}
      ]_vars

\* C3, its case: a handler holding the quiz fallback after its completion
\* request failed, with no document for its topic.
C3_Witness ==
    \E h \in Tasks :
        /\ task[h].pc = "L133"
        /\ task[h].calls # << >>
        /\ ~task[h].calls[Len(task[h].calls)].ok
        /\ task[h].quiz = QuizFallback.quiz
        /\ task[h].answer = <<"A">>
        /\ find_one(quizzes_collection, task[h].topic) = << >>

\* C4 as stated (updates handled one after another): the message that
\* follows the one whose handler set the pending session is graded as the
\* answer, and the message that follows a graded one finds no pending
\* session and is handled as a new topic.
C4_NextMessageOnly ==
    \A h \in Tasks :
        task[h].kind = "message" =>
            /\ task[h].prev = "set" => task[h].seen # << >>
            /\ task[h].prev = "answer" => task[h].seen = << >>

\* C5 as stated: when a handler on the answer path ends, however it ends,
\* its user has no pending session.
C5_AnswerClearsPending ==
    [][\A h \in Tasks :
        (Grading(h) /\ h \notin DOMAIN task')
            => task[h].user_id \notin DOMAIN user_state']_vars

C8_GradeByUppercasedText ==
    \A h \in Tasks :
        Grading(h) =>
            LET stored == task[h].seen[1].answer
                match  == Upper(Strip(task[h].raw)) = stored
            IN  /\ Len(task[h].out) = 1
                /\ match => task[h].out[1] = CorrectReply /\ task[h].pc = "L114"
                /\ ~match => /\ task[h].out[1] = IncorrectReply(stored)
                             /\ task[h].pc = "L116"

\* C8, its case: the text "b" graded as correct against the stored letter "B".
C8_Witness ==
    \E h \in Tasks :
        /\ task[h].pc = "L114"
        /\ task[h].raw = <<"b">>
        /\ task[h].seen = << [topic |-> <<"b">>, answer |-> <<"B">>] >>

\* C9: a message dispatched while its user has no pending session is not
\* graded: its handler takes the new-topic path with the lower-cased trimmed
\* text as topic, and when that handler returns the user has a pending
\* session for that topic.
C9_IdleMessageIsTopic ==
    [][/\ \A k \in DOMAIN task' \ Tasks :
            (task'[k].kind = "message" /\ task'[k].user_id \notin DOMAIN user_state)
                => /\ task'[k].pc = "L126"
                   /\ task'[k].seen = << >>
                   /\ task'[k].topic = Lower(Strip(task'[k].raw))
                   /\ task'[k].out = <<AckReply(Lower(Strip(task'[k].raw)))>>
       /\ \A h \in Tasks :
            (task[h].kind = "message" /\ task[h].seen = << >>)
                => /\ h \in DOMAIN task' =>
                        /\ ~(task'[h].pc \in {"L114", "L116"})
                        /\ \A i \in 1..Len(task'[h].out) :
                                ~IsGradeReply(task'[h].out[i])
                   /\ Returns(h) =>
                        /\ task[h].user_id \in DOMAIN user_state'
                        /\ user_state'[task[h].user_id].topic =
                                Lower(Strip(task[h].raw))
      ]_vars

\* C9, its case: the message " A" of a user with no pending session has been
\* handled to its end, and the user has a pending session for the topic "a".
C9_Witness ==
    \E u \in DOMAIN user_state :
        /\ user_state[u].topic = <<"a">>
        /\ last_msg[u] = "set"

\* C10: every document of the quiz collection is the one a lookup of its
\* topic finds, and the pair generate_quiz last returned for a topic, when
\* it came from the collection or was written to it, is the pair a lookup of
\* the topic finds.
C10_QuizRoundTrip ==
    /\ \A i \in 1..Len(quizzes_collection) :
            find_one(quizzes_collection, quizzes_collection[i].topic)
                = <<quizzes_collection[i]>>
    /\ \A t \in DOMAIN last_ret.quiz :
            last_ret.quiz[t].how \in {"stored", "hit"} =>
                find_one(quizzes_collection, t) =
                    << [topic |-> t, quiz |-> last_ret.quiz[t].ret.quiz,
                        answer |-> last_ret.quiz[t].ret.answer] >>
    /\ \A h \in Tasks :
            (task[h].pc = "L133" /\ task[h].quiz_how \in {"stored", "hit"}) =>
                find_one(quizzes_collection, task[h].topic) =
                    << [topic |-> task[h].topic, quiz |-> task[h].quiz,
                        answer |-> task[h].answer] >>

\* C10, its case: a handler whose generate_quiz call returned from the
\* collection the pair parsed from "Q?\nAnswer: b" by an earlier call.
C10_Witness ==
    \E h \in Tasks :
        /\ task[h].pc = "L133"
        /\ task[h].quiz_how = "hit"
        /\ task[h].quiz = <<"Q", "?">>
        /\ task[h].answer = <<"B">>

\* C11: a document, once in a collection, stays there unchanged at its place;
\* once a lookup of a topic finds a document, every later lookup of the topic
\* finds that document; and a generator called for a topic that has a
\* document returns the content of that document, without a completion
\* request.
C11_WriteOnce ==
    [][/\ \A i \in 1..Len(summaries_collection) :
            /\ i <= Len(summaries_collection')
            /\ summaries_collection'[i] = summaries_collection[i]
       /\ \A i \in 1..Len(quizzes_collection) :
            /\ i <= Len(quizzes_collection')
            /\ quizzes_collection'[i] = quizzes_collection[i]
       /\ \A t \in Topics :
            /\ find_one(summaries_collection, t) # << >> =>
                    find_one(summaries_collection', t) = find_one(summaries_collection, t)
            /\ find_one(quizzes_collection, t) # << >> =>
                    find_one(quizzes_collection', t) = find_one(quizzes_collection, t)
       /\ \A h \in Tasks :
            /\ (SummarizeReturns(h)
                    /\ find_one(summaries_collection, task[h].topic) # << >>)
                => /\ task'[h].summary =
                        find_one(summaries_collection, task[h].topic)[1].summary
                   /\ task'[h].calls = task[h].calls
            /\ (QuizReturns(h)
                    /\ find_one(quizzes_collection, task[h].topic) # << >>)
                => /\ task'[h].quiz = find_one(quizzes_collection, task[h].topic)[1].quiz
                   /\ task'[h].answer =
                        find_one(quizzes_collection, task[h].topic)[1].answer
                   /\ task'[h].calls = task[h].calls
      ]_vars

\* C11, its case: a summary stored before the summary of another topic was
\* stored is the one served to a later request for its topic.
C11_Witness ==
    /\ Len(summaries_collection) = 2
    /\ \E h \in Tasks :
            /\ task[h].pc = "L129"
            /\ task[h].sum_how = "hit"
            /\ task[h].topic = summaries_collection[1].topic
            /\ task[h].summary = summaries_collection[1].summary

\* C12 as stated: when the reply carrying the quiz question (line 133) cannot
\* be delivered, the pending session of the event is recorded all the same:
\* once the handler has ended, its user has a pending session with the
\* handler's topic and answer letter.
C12_PendingDespiteTransportFailure ==
    [][\A h \in Tasks :
        (/\ task[h].pc = "L133"
         /\ h \notin DOMAIN task'
         /\ logged' = Append(logged, "TransportFailure"))
            => /\ task[h].user_id \in DOMAIN user_state'
               /\ user_state'[task[h].user_id] =
                    [topic |-> task[h].topic, answer |-> task[h].answer]]_vars

\* The generator call fn of the handler h ended in its except branch although
\* its completion request had succeeded: the store call that follows the
\* request (insert_one) is what failed.
WriteFailureHandled(h, fn) ==
    /\ (IF fn = "summary" THEN task[h].sum_how ELSE task[h].quiz_how) = "fallback"
    /\ \E i \in 1..Len(task[h].calls) :
            task[h].calls[i].fn = fn /\ task[h].calls[i].ok

\* C13 as stated: a store failure inside a generator, on the lookup or on the
\* write, leaves the generator and the handler as an exception; so no handler
\* goes on with a fallback value, and a further reply, after a store call of
\* its generator has failed.
C13_StoreFailurePropagates ==
    \A h \in Tasks :
        /\ ~WriteFailureHandled(h, "summary")
        /\ ~WriteFailureHandled(h, "quiz")

\* The replies a handler on the new-topic path has handed to the transport
\* when it is suspended at pc, in the order of lines 126, 129, 131 and 133.
NewTopicOut(t) ==
    LET all == <<AckReply(t.topic), SummaryReply(t.summary), IntroReply,
                 QuizReply(t.quiz)>>
        n   == CASE t.pc = "L126" -> 1
                 [] t.pc = "L129" -> 2
                 [] t.pc = "L131" -> 3
                 [] t.pc = "L133" -> 4
    IN  SubSeq(all, 1, n)

\* C14 (updates handled one after another): a handler on the new-topic path
\* goes through acknowledgement, summarize_text and its reply, quiz intro,
\* generate_quiz and the question reply in that order, its user having no
\* pending session all the while; and a pending session is created or
\* changed only by the return of a handler of that user whose question reply
\* has been delivered, which records that handler's topic and answer letter.
C14_FixedOrder ==
    [][/\ \A h \in DOMAIN task' :
            (task'[h].kind = "message" /\ task'[h].seen = << >>)
                => /\ task'[h].pc \in {"L126", "L129", "L131", "L133"}
                   /\ task'[h].out = NewTopicOut(task'[h])
                   /\ (task'[h].sum_how = "none") = (task'[h].pc = "L126")
                   /\ (task'[h].quiz_how = "none") =
                            (task'[h].pc \in {"L126", "L129", "L131"})
                   /\ task'[h].user_id \notin DOMAIN user_state'
       /\ \A h \in Tasks \cap DOMAIN task' :
            <<task[h].pc, task'[h].pc>> \in
                { <<"L126", "L129">>, <<"L129", "L131">>, <<"L131", "L133">> }
                    \cup { <<pc, pc>> : pc \in Awaiting }
       /\ \A u \in DOMAIN user_state' :
            (u \notin DOMAIN user_state \/ user_state'[u] # user_state[u])
                => \E h \in Tasks :
                        /\ task[h].user_id = u
                        /\ task[h].pc = "L133"
                        /\ task[h].out[4] = QuizReply(task[h].quiz)
                        /\ Returns(h)
                        /\ user_state'[u] =
                                [topic |-> task[h].topic, answer |-> task[h].answer]
      ]_vars

\* C14, its case: the last event has run to its end and set the pending
\* session of its user, with the letter of the quiz it stored.
C14_Witness ==
    /\ Tasks = {}
    /\ \E u \in DOMAIN user_state :
            /\ setter[u].by = updates
            /\ last_msg[u] = "set"
            /\ find_one(quizzes_collection, user_state[u].topic) # << >>
            /\ user_state[u].answer = <<"B">>

Requested(h, fn, t) ==
    \E i \in 1..Len(task[h].calls) :
        /\ task[h].calls[i].fn = fn
        /\ task[h].calls[i].topic = t
        /\ task[h].calls[i].ok

C17_AnswerPathFrame ==
    [][/\ \A h \in DOMAIN task' :
            task'[h].pc \in {"L114", "L116"}
                => /\ task'[h].calls = << >>
                   /\ task'[h].sum_how = "none" /\ task'[h].quiz_how = "none"
                   /\ Len(task'[h].out) = 1
                   /\ IsGradeReply(task'[h].out[1])
       /\ \A k \in DOMAIN task' \ Tasks :
            task'[k].pc \in {"L114", "L116"}
                => /\ summaries_collection' = summaries_collection
                   /\ quizzes_collection' = quizzes_collection
                   /\ user_state' = user_state
       /\ \A h \in Tasks \ DOMAIN task' :
            Grading(h)
                => /\ summaries_collection' = summaries_collection
                   /\ quizzes_collection' = quizzes_collection
                   /\ \/ user_state' = user_state
                      \/ /\ task[h].user_id \in DOMAIN user_state
                         /\ DOMAIN user_state' = DOMAIN user_state \ {task[h].user_id}
                         /\ \A v \in DOMAIN user_state' : user_state'[v] = user_state[v]
      ]_vars

\* C17, its case: a user's message has been graded and their pending session
\* removed, while both collections hold documents and another user still
\* has their pending session.
C17_Witness ==
    \E u \in Users :
        /\ last_msg[u] = "answer"
        /\ u \notin DOMAIN user_state
        /\ \A h \in Tasks : task[h].user_id # u
        /\ DOMAIN user_state # {}
        /\ summaries_collection # << >>
        /\ quizzes_collection # << >>

\* The entry of the user v in the dict us, as a sequence of length 0 or 1.
Entry(us, v) == IF v \in DOMAIN us THEN <<us[v]>> ELSE << >>

\* C18: in every interleaving, a step that creates, changes or removes the
\* pending session of a user v is the end of a handler of a text message of
\* v; so no handler of another user and no start command touches it.
C18_PerUserIsolation ==
    [][\A v \in Users :
        Entry(user_state', v) # Entry(user_state, v)
            => \E h \in Tasks \ DOMAIN task' :
                    /\ task[h].user_id = v
                    /\ task[h].kind = "message"]_vars

\* C18, its case: both users have a pending session, for different topics,
\* each set by a handler of their own message.
C18_Witness ==
    /\ DOMAIN user_state = Users
    /\ \A u \in Users : last_msg[u] = "set"
    /\ user_state[1].topic # user_state[2].topic
    /\ setter[1].by # setter[2].by

\* The collection coll holds a quiz document for the topic with that letter.
HasQuizRecord(coll, topic, answer) ==
    \E i \in 1..Len(coll) : coll[i].topic = topic /\ coll[i].answer = answer

\* C19 (updates handled one after another): a generate_quiz call that ends in
\* its except branch writes no document and yields the letter "A"; when the
\* handler of such an event returns, its user has a pending session with
\* the event's topic and the letter "A"; a pending session whose letter is
\* not the letter of a quiz document of its topic has the letter "A"; and a
\* message graded against a session is graded against that session's letter.
C19_FallbackLetterIsA ==
    [][/\ \A h \in Tasks :
            /\ (QuizReturns(h) /\ task'[h].quiz_how = "fallback")
                => /\ quizzes_collection' = quizzes_collection
                   /\ task'[h].answer = <<"A">>
            /\ (task[h].pc = "L133" /\ task[h].quiz_how = "fallback" /\ Returns(h))
                => /\ task[h].user_id \in DOMAIN user_state'
                   /\ user_state'[task[h].user_id] =
                        [topic |-> task[h].topic, answer |-> <<"A">>]
       /\ \A u \in DOMAIN user_state' :
            ~HasQuizRecord(quizzes_collection', user_state'[u].topic,
                           user_state'[u].answer)
                => user_state'[u].answer = <<"A">>
       /\ \A k \in DOMAIN task' \ Tasks :
            task'[k].pc \in {"L114", "L116"}
                => /\ task'[k].seen = <<user_state[task'[k].user_id]>>
                   /\ task'[k].correct = user_state[task'[k].user_id].answer
                   /\ (task'[k].pc = "L114") =
                        (Upper(Strip(task'[k].raw)) = task'[k].correct)
      ]_vars

\* C19, its case: a message is being graded against the letter "A" of a
\* pending session for whose topic no quiz document exists, the quiz
\* generation of the event that set the session having failed.
C19_Witness ==
    \E h \in Tasks :
        /\ Grading(h)
        /\ task[h].seen[1].answer = <<"A">>
        /\ task[h].correct = <<"A">>
        /\ \A i \in 1..Len(quizzes_collection) :
                quizzes_collection[i].topic # task[h].seen[1].topic
        /\ task[h].seen[1].topic \in DOMAIN last_ret.quiz
        /\ last_ret.quiz[task[h].seen[1].topic].how = "fallback"

====
